---- MODULE Spec2Model ----
(***************************************************************************)
(* DevCommit: the commit-decomposition and interactive authoring workflow  *)
(* of devcommit/main.py, with the helpers of devcommit/utils/git.py and    *)
(* the provider adapter devcommit/app/gemini_ai.py.                        *)
(*                                                                         *)
(* A Python str is a sequence of one-character strings, so that split,     *)
(* strip, startswith and normpath are computed and not assumed.            *)
(***************************************************************************)
EXTENDS Integers, Sequences, FiniteSets, TLC

VARIABLES
    flags,           \* the parsed CommitFlag: push, directory, stageAll, files, excludeFiles
    cwd,             \* the directory devcommit was invoked from
    commit_mode,     \* config("COMMIT_MODE", default="auto").lower(), or NoConfig
    staged,          \* staged["files"]: the ChangeSet's file list
    index,           \* the repository's staging area: the files with staged changes
    worktree,        \* the tracked files with changes that are not staged
    pc,              \* the position of main()
    strategy,        \* which process_* function main dispatches to
    asked,           \* whether prompt_commit_strategy was shown
    groups,          \* the (name, files) list the orchestration loop iterates
    gi,              \* the loop's position in groups
    units,           \* the CommitUnits created so far, in creation order
    live,            \* the unit being processed: its diff text, whether the provider failed
    commit_message,  \* the candidate list of the unit under review
    regens,          \* regenerate selections made for the unit under review
    commits_made,    \* the local accumulator of process_per_*_commits
    commit_made,     \* main's commit_made, read by the push gate
    commits,         \* every commit operation invoked: its file list and exit status
    last_message,    \* the -m argument of the commit invoked by the last step
    picked,          \* what the user chose at the last review prompt, and what was typed
    generated,       \* the units and groups generateCommitMessage was called for
    calls,           \* generateCommitMessage's calls for the unit in progress
    log,             \* the notices printed to the console
    push,            \* push_changes: entered, upstream check, git push invocations
    error,           \* the exception main's handlers caught, or "none"
    arg,             \* the input of a helper called on its own
    ret,             \* the helper's return value
    called           \* which helper was called

mainvars == <<flags, cwd, commit_mode, staged, index, worktree, pc, strategy, asked, groups,
              gi, units, live, commit_message, regens, commits_made, commit_made,
              commits, last_message, picked, generated, calls, log, push, error>>
fnvars == <<arg, ret, called>>
vars == <<mainvars, generated, fnvars>>

(***************************************************************************)
(* Bounds of the model.                                                    *)
(***************************************************************************)
MaxLen == 3      \* longest file list given to group_files_by_directory on its own
MaxPaths == 2    \* longest list of explicit paths given to the path grouping on its own
MaxRegen == 1    \* regenerate selections per unit

(***************************************************************************)
(* Python str and list operations.                                         *)
(***************************************************************************)
Sep == "/"
Pipe == "|"

startswith(s, p) == Len(p) <= Len(s) /\ SubSeq(s, 1, Len(p)) = p

InList(x, xs) == \E i \in 1..Len(xs) : xs[i] = x

ToSet(xs) == {xs[i] : i \in 1..Len(xs)}

RECURSIVE SplitFrom(_, _, _, _)
SplitFrom(s, sep, i, cur) ==
    IF i > Len(s) THEN <<cur>>
    ELSE IF s[i] = sep THEN <<cur>> \o SplitFrom(s, sep, i + 1, <<>>)
    ELSE SplitFrom(s, sep, i + 1, Append(cur, s[i]))

split(s, sep) == SplitFrom(s, sep, 1, <<>>)

RECURSIVE join(_, _)
join(parts, sep) ==
    IF parts = <<>> THEN <<>>
    ELSE IF Len(parts) = 1 THEN parts[1]
    ELSE parts[1] \o <<sep>> \o join(Tail(parts), sep)

IsSpace(c) == c \in {" ", "\t", "\n", "\r"}

RECURSIVE lstrip(_)
lstrip(s) == IF s # <<>> /\ IsSpace(Head(s)) THEN lstrip(Tail(s)) ELSE s

RECURSIVE rstrip(_)
rstrip(s) ==
    IF s # <<>> /\ IsSpace(s[Len(s)]) THEN rstrip(SubSeq(s, 1, Len(s) - 1)) ELSE s

strip(s) == rstrip(lstrip(s))

\* A dict is the sequence of its (key, val) items in insertion order.
HasKey(d, k) == \E i \in 1..Len(d) : d[i].key = k

Keys(d) == [i \in 1..Len(d) |-> d[i].key]

\* d[k] = v: a new key goes last, an existing key keeps its place.
DictSet(d, k, v) ==
    IF HasKey(d, k)
    THEN [i \in 1..Len(d) |-> IF d[i].key = k THEN [key |-> k, val |-> v] ELSE d[i]]
    ELSE Append(d, [key |-> k, val |-> v])

DictAppendLost(d, k, v) == DictSet(d, k, <<v>>)

\* a dict that lists the newest key first
DictAppendFirst(d, k, v) ==
    IF HasKey(d, k)
    THEN [i \in 1..Len(d) |->
            IF d[i].key = k THEN [key |-> k, val |-> Append(d[i].val, v)] ELSE d[i]]
    ELSE <<[key |-> k, val |-> <<v>>]>> \o d

\* defaultdict(list): d[k].append(v)
DictAppend(d, k, v) ==
    IF HasKey(d, k)
    THEN [i \in 1..Len(d) |->
            IF d[i].key = k THEN [key |-> k, val |-> Append(d[i].val, v)] ELSE d[i]]
    ELSE Append(d, [key |-> k, val |-> <<v>>])

(***************************************************************************)
(* devcommit/utils/git.py: group_files_by_directory                        *)
(***************************************************************************)
RootBucket == <<"r","o","o","t">>

root_dir(file_path) ==
    LET parts == split(file_path, Sep)
    IN  IF Len(parts) > 1 THEN parts[1] ELSE RootBucket

RECURSIVE GroupFrom(_, _, _)
GroupFrom(files, i, grouped) ==
    IF i > Len(files) THEN grouped
    ELSE GroupFrom(files, i + 1, DictAppend(grouped, root_dir(files[i]), files[i]))

group_files_by_directory(files) == GroupFrom(files, 1, <<>>)

(***************************************************************************)
(* The working tree the runs are made in: its tracked files.               *)
(***************************************************************************)
FileSA == <<"s","/","a">>
FileSTC == <<"s","/","t","/","c">>
FileDR == <<"d","/","r">>
FileM == <<"m">>
FileX == <<"x">>

\* in the order git lists them
TrackedFiles == <<FileDR, FileM, FileSA, FileSTC>>

\* where the repository is checked out: git rev-parse --show-toplevel
RepoRoot == <<"/","r">>

\* a directory that is in no repository
Outside == <<"/","o">>

\* the directories devcommit can be invoked from
Cwds == {RepoRoot, RepoRoot \o <<"/","s">>, Outside}

\* os.path.isdir(os.path.join(repo_root, path)) for a normalised relative path
isdir(path) ==
    \/ path = <<".">>
    \/ \E i \in 1..Len(TrackedFiles) : startswith(TrackedFiles[i], path \o <<Sep>>)

(***************************************************************************)
(* os.path: isabs, normpath, relpath                                       *)
(***************************************************************************)
isabs(path) == startswith(path, <<Sep>>)

RECURSIVE NormParts(_, _, _, _)
NormParts(parts, i, acc, absolute) ==
    IF i > Len(parts) THEN acc
    ELSE IF parts[i] = <<>> \/ parts[i] = <<".">>
         THEN NormParts(parts, i + 1, acc, absolute)
    ELSE IF parts[i] = <<".", ".">> /\ acc # <<>> /\ acc[Len(acc)] # <<".", ".">>
         THEN NormParts(parts, i + 1, SubSeq(acc, 1, Len(acc) - 1), absolute)
    ELSE IF parts[i] = <<".", ".">> /\ acc = <<>> /\ absolute
         THEN NormParts(parts, i + 1, acc, absolute)
    ELSE NormParts(parts, i + 1, Append(acc, parts[i]), absolute)

normpath(path) ==
    LET parts == NormParts(split(path, Sep), 1, <<>>, isabs(path))
    IN  IF isabs(path) THEN <<Sep>> \o join(parts, Sep)
        ELSE IF parts = <<>> THEN <<".">> ELSE join(parts, Sep)

\* os.path.relpath(path, start) for an absolute path at or below start; a path
\* that is not below start comes out beginning with ".."
relpath(path, start) ==
    LET full == normpath(path)
    IN  IF full = start THEN <<".">>
        ELSE IF startswith(full, start \o <<Sep>>)
             THEN SubSeq(full, Len(start) + 2, Len(full))
        ELSE <<".", ".">> \o full

(***************************************************************************)
(* main.py: the path grouping of process_per_directory_commits_from_paths  *)
(***************************************************************************)
dir_files(normalized_path, files) ==
    SelectSeq(files, LAMBDA f : startswith(f, normalized_path \o <<Sep>>)
                                \/ f = normalized_path)

RECURSIVE PathToFilesFrom(_, _, _, _)
PathToFilesFrom(original_paths, files, i, path_to_files) ==
    IF i > Len(original_paths) THEN path_to_files
    ELSE LET normalized_path == normpath(original_paths[i])
             found == dir_files(normalized_path, files)
             next ==
                IF isdir(normalized_path)
                THEN IF found # <<>>
                     THEN DictSet(path_to_files, normalized_path, found)
                     ELSE path_to_files
                ELSE IF InList(normalized_path, files)
                     THEN DictSet(path_to_files, normalized_path, <<normalized_path>>)
                     ELSE path_to_files
         IN  PathToFilesFrom(original_paths, files, i + 1, next)

group_by_paths(original_paths, files) == PathToFilesFrom(original_paths, files, 1, <<>>)

(***************************************************************************)
(* devcommit/utils/git.py: get_files_from_paths, get_diff_for_files        *)
(***************************************************************************)
\* A function's outcome: the value it returns, or the exception it raises.
Returns(value) == [raised |-> "none", value |-> value]

Raises(kind) == [raised |-> kind, value |-> <<>>]

\* assert_git_repo(): the top-level directory, from any directory inside it
assert_git_repo(wd) ==
    IF wd = RepoRoot \/ startswith(wd, RepoRoot \o <<Sep>>)
    THEN Returns(RepoRoot)
    ELSE Raises("KnownError")

\* what is on disk: the tracked files and the directories that hold them
isfile(full) == InList(relpath(full, RepoRoot), TrackedFiles)

\* a check that finds every path on disk
exists_always(full) == TRUE

\* os.path.exists(full_path)
exists(full) == isfile(full) \/ isdir(relpath(full, RepoRoot))

\* a relative path taken from the invoking directory
full_path_from_cwd(path, repo_root, wd) ==
    IF isabs(path) THEN path ELSE wd \o <<Sep>> \o normpath(path)

\* os.path.join(repo_root, normalized_path) if not os.path.isabs(path) else path
full_path(path, repo_root, wd) ==
    IF isabs(path) THEN path ELSE repo_root \o <<Sep>> \o normpath(path)

\* git ls-files -- normalized_path, run with cwd=repo_root
ls_files(normalized_path, repo_root) ==
    LET under == IF isabs(normalized_path) THEN relpath(normalized_path, repo_root)
                 ELSE normalized_path
    IN  SelectSeq(TrackedFiles, LAMBDA f :
            under = <<".">> \/ f = under \/ startswith(f, under \o <<Sep>>))

\* the for loop over paths: all_files so far, or the KnownError of a missing path
RECURSIVE AllFilesFrom(_, _, _, _)
AllFilesFrom(paths, wd, i, all_files) ==
    IF i > Len(paths) THEN Returns(all_files)
    ELSE LET repo_root == assert_git_repo(wd).value
             normalized_path == normpath(paths[i])
             full == full_path(paths[i], repo_root, wd)
         IN  IF ~exists(full) THEN Raises("KnownError")
             ELSE IF isfile(full)
                  THEN AllFilesFrom(paths, wd, i + 1,
                                    Append(all_files, relpath(full, repo_root)))
             ELSE AllFilesFrom(paths, wd, i + 1,
                               all_files \o ls_files(normalized_path, repo_root))

\* list(set(all_files)): the files without repeats, in no defined order
get_files_from_paths(paths, wd) ==
    LET all == AllFilesFrom(paths, wd, 1, <<>>)
    IN  IF assert_git_repo(wd).raised # "none" THEN assert_git_repo(wd)
        ELSE IF all.raised # "none" THEN all
        ELSE Returns(ToSet(all.value))

endswith(s, p) == Len(p) <= Len(s) /\ SubSeq(s, Len(s) - Len(p) + 1, Len(s)) = p

contains(s, sub) == \E i \in 1..(Len(s) + 1) : startswith(SubSeq(s, i, Len(s)), sub)

RECURSIVE replace(_, _, _)
replace(s, old, new) ==
    IF s = <<>> THEN <<>>
    ELSE IF old # <<>> /\ startswith(s, old)
         THEN new \o replace(SubSeq(s, Len(old) + 1, Len(s)), old, new)
    ELSE <<Head(s)>> \o replace(Tail(s), old, new)

ExcludeMagic == <<":","(","e","x","c","l","u","d","e",")">>

\* files_to_exclude: config("EXCLUDE_FILES", default="") parsed at import
files_to_exclude == <<>>

is_excluded(f, all_excluded) ==
    \E i \in 1..Len(all_excluded) :
        \/ endswith(f, replace(all_excluded[i], <<"*">>, <<>>))
        \/ contains(f, replace(all_excluded[i], ExcludeMagic, <<>>))

\* What `git diff --cached -- files` can do: print the diff, exit non-zero
\* (CalledProcessError, caught), or fail to run at all (OSError, not caught).
GitResults == {"ok", "CalledProcessError", "OSError"}

\* The diff text is the list of the files whose staged changes it shows; "" is <<>>.
\* staging is the staging area the command reads.
diff_for_files(files, exclude_files, git, staging) ==
    LET filtered_files ==
            SelectSeq(files, LAMBDA f : ~is_excluded(f, files_to_exclude \o exclude_files))
    IN  IF filtered_files = <<>> THEN <<>>
        ELSE IF git = "CalledProcessError" THEN <<>>
        ELSE SelectSeq(filtered_files, LAMBDA f : f \in staging)

get_diff_for_files(files, exclude_files, git) ==
    diff_for_files(files, exclude_files, git, index)

\* git's ':(exclude)' pathspec: the path itself, or anything under it
exclude_from_diff(f, patterns) ==
    \E i \in 1..Len(patterns) :
        f = patterns[i] \/ startswith(f, patterns[i] \o <<Sep>>)

\* get_staged_diff(exclude_files)["files"]: git diff --cached --name-only with the
\* exclusions; <<>> is None, returned when no file is listed or git exits non-zero
get_staged_diff(exclude_files, git, staging) ==
    LET files_result ==
            SelectSeq(TrackedFiles, LAMBDA f :
                f \in staging /\ ~exclude_from_diff(f, files_to_exclude \o exclude_files))
    IN  IF git = "CalledProcessError" THEN <<>> ELSE files_result

(***************************************************************************)
(* devcommit/app/gemini_ai.py: generateCommitMessage                       *)
(***************************************************************************)
NoValidText ==
    <<"N","o"," ","v","a","l","i","d"," ","c","o","m","m","i","t"," ","m","e","s","s",
      "a","g","e"," ","g","e","n","e","r","a","t","e","d",".">>

ErrorPrefix ==
    <<"E","r","r","o","r"," ","g","e","n","e","r","a","t","i","n","g"," ","c","o","m",
      "m","i","t"," ","m","e","s","s","a","g","e",":"," ">>

\* What the provider does with one request: reply with text, reply without
\* text, or raise (transport, authentication, missing API key).
ProviderOutcomes ==
    {[kind |-> "text", text |-> <<"m">>],
     [kind |-> "text", text |-> <<" ","m","|","n","\n">>],
     [kind |-> "text", text |-> <<"c","a","n","c","e","l">>],
     [kind |-> "text", text |-> <<" ">>],
     [kind |-> "none", text |-> <<>>],
     [kind |-> "raise", text |-> <<"5","0","3">>]}

generateCommitMessage(diff, outcome) ==
    IF outcome.kind = "text" THEN strip(outcome.text)
    ELSE IF outcome.kind = "none" THEN NoValidText
    ELSE ErrorPrefix \o outcome.text

\* a call recorded twice
provider_call_repeated(unit, diff) ==
    <<[unit |-> unit, diff |-> diff], [unit |-> unit, diff |-> diff]>>

\* generateCommitMessage(diff) runs once for the unit of this number
provider_call(unit, diff) == <<[unit |-> unit, diff |-> diff]>>

\* whether the provider call failed (ProviderError in the design's taxonomy)
provider_failed(outcome) == outcome.kind # "text"

\* if isinstance(commit_message, str): commit_message = commit_message.split("|")
candidates(text) == split(text, Pipe)

(***************************************************************************)
(* main.py: prompt_commit_message, prompt_custom_message                   *)
(***************************************************************************)
\* Python None: a one-element sequence no str (a sequence of characters) equals
NoneVal == <<"None">>

\* a test that takes every str, the empty one too, for a message
not_none(x) == x # NoneVal

\* elif selected_commit: None and "" are falsy (main.py 568, 706, 862, 994)
Truthy(x) == x # NoneVal /\ x # <<>>

StrCustom == <<"c","u","s","t","o","m">>
StrRegenerate == <<"r","e","g","e","n","e","r","a","t","e">>
StrCancel == <<"c","a","n","c","e","l">>

\* what the user can type that the validator (len(result.strip()) > 0) accepts
CustomInputs == {<<"k">>, <<" ","k"," ">>, StrRegenerate}

\* what the user can type that the validator rejects
Blank == <<" ">>

\* a validator that accepts every input
validate_any(result) == TRUE

\* validate=lambda result: len(result.strip()) > 0
validate(result) == Len(strip(result)) > 0

\* typed is the input the prompt returned; filter=lambda result: result.strip()
prompt_custom_message(typed) ==
    LET custom_message == strip(typed)
    IN  IF custom_message = <<>> THEN NoneVal ELSE custom_message

\* action is the value of the chosen entry
prompt_commit_message(action, typed) ==
    IF action = StrCancel THEN NoneVal
    ELSE IF action = StrCustom THEN prompt_custom_message(typed)
    ELSE IF action = StrRegenerate THEN StrRegenerate
    ELSE action

(***************************************************************************)
(* main.py: main(), from the strategy decision on.  The ChangeSet has been *)
(* collected: staged["files"] is not empty.                                *)
(***************************************************************************)
DirS == <<"s">>
DirST == <<"s","/","t">>
DirD == <<"d","/">>

\* flags["files"]: none, directories (nested, in both orders), files, a mix, a
\* path that is not on disk
PathChoices ==
    {<<>>, <<DirS>>, <<DirST, DirS>>, <<DirS, DirST>>, <<FileM, FileSA>>, <<DirD, FileM>>,
     <<FileX>>, <<FileM, FileX>>}

\* config("COMMIT_MODE", default="auto")
DefaultCommitMode == "auto"

\* no .dcommit file was found when devcommit.utils.logger was imported: config
\* is None, and there is no value to look up
NoConfig == "no configuration file"

RECURSIVE PickFrom(_, _, _)
PickFrom(xs, chosen, i) ==
    IF i > Len(xs) THEN <<>>
    ELSE (IF i \in chosen THEN <<xs[i]>> ELSE <<>>) \o PickFrom(xs, chosen, i + 1)

\* the entries of xs at the chosen positions, in the order of xs
Pick(xs, chosen) == PickFrom(xs, chosen, 1)

\* the file lists git can report as staged, within the paths given (all, if none given)
ChangeSets(paths) ==
    {cs \in {Pick(TrackedFiles, chosen) : chosen \in SUBSET (1..Len(TrackedFiles))} :
        /\ cs # <<>>
        /\ paths # <<>> => ToSet(cs) \subseteq get_files_from_paths(paths, RepoRoot).value}

NoLive == [diff |-> <<>>, failed |-> FALSE]

\* the entry chosen in prompt_commit_message's list: a candidate, or one of the
\* three entries the prompt adds; text is the candidate, or what was typed
Pick1(entry, text) == [entry |-> entry, text |-> text]

NoPick == Pick1("none", <<>>)

NoPush == [entered |-> FALSE, checked |-> FALSE, upstream |-> "unknown", invoked |-> 0]

FnIdle == arg = <<>> /\ ret = <<>> /\ called = "none"

\* main() at position at, with nothing processed yet
MainAt(at) ==
    /\ pc = at
    /\ strategy = "none"
    /\ asked = FALSE
    /\ groups = <<>>
    /\ gi = 0
    /\ units = <<>>
    /\ live = NoLive
    /\ commit_message = <<>>
    /\ regens = 0
    /\ commits_made = FALSE
    /\ commit_made = FALSE
    /\ commits = <<>>
    /\ last_message = NoneVal
    /\ picked = NoPick
    /\ generated = {}
    /\ calls = <<>>
    /\ log = <<>>
    /\ push = NoPush
    /\ error = "none"

Notice(kind, name) == Append(log, [kind |-> kind, name |-> name])

\* an exception reaches main's handlers (main.py 244-255): the run ends there
Raise(kind) ==
    /\ pc' = "aborted"
    /\ error' = kind

\* --excludeFiles: nothing, or one file name
ExcludeChoices == {<<>>, <<FileM>>}

\* the repository when devcommit starts: the staging area, the unstaged changes
Repositories ==
    {[index |-> {}, worktree |-> {}],
     [index |-> {FileM, FileSA}, worktree |-> {}],
     [index |-> {FileDR, FileM, FileSA}, worktree |-> {}],
     [index |-> {FileSA, FileSTC}, worktree |-> {FileM}],
     [index |-> {}, worktree |-> {FileM, FileSA}],
     [index |-> {}, worktree |-> {FileM}]}

Init ==
    /\ flags \in [push : BOOLEAN, directory : BOOLEAN, stageAll : BOOLEAN,
                  files : PathChoices, excludeFiles : ExcludeChoices, rawArgv : {<<>>}]
    /\ cwd \in {RepoRoot, Outside}
    /\ commit_mode = DefaultCommitMode
    /\ staged = <<>>
    /\ \E repo \in Repositories :
          /\ index = repo.index
          /\ worktree = repo.worktree
    /\ MainAt("start")
    /\ FnIdle

\* ---- staging and the ChangeSet (main.py 40-157) ----
\* the orders list(set(...)) can return the files in
Orders(S) == {order \in [1..Cardinality(S) -> S] : ToSet(order) = S}

\* git add: what a command that need not succeed can do
AddResults == {"ok", "CalledProcessError"}

\* stage_files(files): git add -- files
stage_files(files) ==
    [index |-> index \cup (worktree \cap ToSet(files)),
     worktree |-> worktree \ ToSet(files)]

\* stage_changes(console): git add --update
stage_changes == [index |-> index \cup worktree, worktree |-> {}]

\* main's except handlers print the error: the run ends with that notice
Fail(kind, notice) ==
    /\ Raise(kind)
    /\ log' = Notice(notice, <<>>)
    /\ UNCHANGED staged

\* assert_git_repo() raises before console = Console() ran (main.py 41-42): the
\* KnownError handler's console.print (main.py 247-249) finds the name unbound,
\* and the UnboundLocalError it raises leaves main with nothing reported
HandlerFails ==
    /\ Raise("UnboundLocalError")
    /\ UNCHANGED <<log, staged>>

Collected(files) ==
    /\ staged' = files
    /\ pc' = "resolve"
    /\ UNCHANGED <<log, error>>

\* a check that lets an empty file list through
staged_never_missing(all_staged) == FALSE

\* if not staged / if not all_staged (main.py 124, 274)
no_staged_changes(all_staged) == all_staged = <<>>

\* a filter that keeps every staged file
staged_file_kept_always(staged_file, push_files_list) == TRUE

\* if staged_file in push_files_list (main.py 133)
staged_file_kept(staged_file, push_files_list) == InList(staged_file, push_files_list)

\* the staging area and the working tree stay as they are
Untouched == UNCHANGED <<index, worktree>>

Collect ==
    /\ pc = "start"
    /\ \E add \in AddResults, listing \in AddResults, git \in AddResults :
        LET found == IF flags.files # <<>>
                     THEN get_files_from_paths(flags.files, cwd)
                     ELSE Returns({})
        IN  IF assert_git_repo(cwd).raised # "none"
            THEN HandlerFails /\ Untouched
            ELSE IF commit_mode = NoConfig
            THEN Fail("TypeError", "error_unexpected") /\ Untouched
            ELSE IF found.raised # "none"
            THEN Fail("KnownError", "error_path_does_not_exist") /\ Untouched
            ELSE IF flags.files # <<>> /\ found.value = {}
            THEN Fail("KnownError", "error_no_files_found") /\ Untouched
            ELSE \E push_files_list \in Orders(found.value) :
                LET after == IF ~flags.stageAll
                             THEN [index |-> index, worktree |-> worktree]
                             ELSE IF push_files_list # <<>>
                             THEN stage_files(push_files_list)
                             ELSE stage_changes
                    all_staged == get_staged_diff(flags.excludeFiles, listing, after.index)
                    filtered_files ==
                        SelectSeq(all_staged, LAMBDA f : staged_file_kept(f, push_files_list))
                    files == IF push_files_list = <<>> THEN all_staged
                             ELSE IF flags.stageAll THEN push_files_list
                             ELSE filtered_files
                IN  IF flags.stageAll /\ add # "ok"
                    THEN /\ Fail(IF push_files_list # <<>> THEN "KnownError"
                                 ELSE "CalledProcessError", "error_staging_failed")
                         /\ Untouched
                    ELSE /\ index' = after.index
                         /\ worktree' = after.worktree
                         /\ IF (push_files_list = <<>> \/ ~flags.stageAll)
                               /\ no_staged_changes(all_staged)
                            THEN Fail("KnownError", "error_no_staged_changes")
                            ELSE IF files = <<>>
                            THEN Fail("KnownError", "error_none_of_the_files_staged")
                            ELSE IF push_files_list # <<>>
                                    /\ diff_for_files(files, flags.excludeFiles, git,
                                                      after.index) = <<>>
                            THEN Fail("KnownError", "error_no_changes_in_files")
                            ELSE Collected(files)
    /\ UNCHANGED <<flags, cwd, commit_mode, strategy, asked, groups, gi, units, live,
                   commit_message, regens, commits_made, commit_made, commits,
                   last_message, picked, generated, calls, push, fnvars>>

\* ---- the strategy decision (main.py 159-226) ----
is_files_mode == flags.files # <<>>

\* use_per_directory taken from the flag alone
flag_per_directory == flags.directory

\* use_per_directory after the flag and the configured mode were read
configured_per_directory == flags.directory \/ commit_mode = "directory"

\* a prompt shown for several directory groups only
prompted_for_several_groups ==
    /\ ~configured_per_directory
    /\ commit_mode = "auto"
    /\ Len(group_files_by_directory(staged)) > 1

\* whether prompt_commit_strategy is reached
strategy_prompted ==
    /\ ~configured_per_directory
    /\ commit_mode = "auto"
    /\ (is_files_mode \/ Len(group_files_by_directory(staged)) > 1)

has_directories == \E i \in 1..Len(flags.files) : isdir(normpath(flags.files[i]))

dispatch(use_per_directory) ==
    IF use_per_directory
    THEN IF is_files_mode
         THEN IF has_directories THEN "PerPath" ELSE "PerFile"
         ELSE "PerDirectory"
    ELSE "Global"

Resolve ==
    /\ pc = "resolve"
    /\ \E answer \in BOOLEAN :
        /\ asked' = strategy_prompted
        /\ strategy' = dispatch(IF strategy_prompted THEN answer
                                ELSE configured_per_directory)
    /\ pc' = "enter"
    /\ UNCHANGED <<flags, cwd, commit_mode, staged, index, worktree, groups, gi, units, live,
                   commit_message, regens, commits_made, commit_made, commits, last_message, picked, log, push,
                   error, generated, calls, fnvars>>

\* ---- units ----
GlobalId == <<"g","l","o","b","a","l">>

\* how: what ended the unit ("" while it is being processed)
NewUnit(id, files, state) == [id |-> id, files |-> files, state |-> state, how |-> ""]

\* the unit being processed is the last one created
SetUnit(state) == [units EXCEPT ![Len(units)].state = state]

\* the loop moves on while the unit keeps its state
left_open(state, how) ==
    /\ units' = units
    /\ live' = NoLive
    /\ commit_message' = <<>>
    /\ regens' = 0
    /\ calls' = <<>>

\* the unit reached Committed or Skipped: nothing of it is used again
Ended(state, how) ==
    /\ units' = [units EXCEPT ![Len(units)].state = state, ![Len(units)].how = how]
    /\ live' = NoLive
    /\ commit_message' = <<>>
    /\ regens' = 0
    /\ calls' = <<>>

Generated(diff, failed) == [diff |-> diff, failed |-> failed]

\* ---- the commit operation ----
CommitStatuses == {0, 1}

\* git commit -m message -- files: on success the listed files' changes are committed
index_after_commit(files, status) == IF status = 0 THEN index \ ToSet(files) ELSE index

Invoke(files, message, status) ==
    /\ commits' = Append(commits, [files |-> files, status |-> status,
                                   unit |-> Len(units)])
    /\ last_message' = message
    /\ index' = index_after_commit(files, status)
    /\ UNCHANGED worktree

\* a commit branch that leaves the flag as it was initialised (main.py 579, 723, 880)
made_without_commit == FALSE

\* commits_made = True (main.py 710, 866, 998); return True (main.py 570)
made_after_commit == TRUE

\* ---- process_global_commit (main.py 543-572) ----
\* staged["files"] if staged and staged.get("files") else None
files_to_commit_first_group == group_files_by_directory(staged)[1].val

files_to_commit == staged

EnterGlobal ==
    /\ pc = "enter"
    /\ strategy = "Global"
    /\ units' = <<NewUnit(GlobalId, files_to_commit, "Generating")>>
    /\ pc' = "analyze"
    /\ UNCHANGED <<flags, cwd, commit_mode, staged, index, worktree, strategy, asked, groups, gi, live,
                   commit_message, regens, commits_made, commit_made, commits,
                   last_message, picked, log, push, error, generated, calls, fnvars>>

\* analyze_changes(console, files=files_to_commit) (main.py 289-336)
GlobalAnalyze ==
    /\ pc = "analyze"
    /\ \E git \in GitResults :
        LET diff == get_diff_for_files(units[Len(units)].files, <<>>, git)
        IN  \/ /\ git = "OSError"
               /\ Raise("Exception")
               /\ UNCHANGED <<units, live, commit_message, generated, calls, log>>
            \/ /\ git # "OSError"
               /\ diff = <<>>
               /\ Raise("KnownError")
               /\ log' = Notice("error_no_diff", <<>>)
               /\ UNCHANGED <<units, live, commit_message, generated, calls>>
            \/ /\ git # "OSError"
               /\ diff # <<>>
               /\ generated' = generated \cup {GlobalId}
               /\ calls' = calls \o provider_call(Len(units), diff)
               /\ UNCHANGED log
               /\ \E outcome \in ProviderOutcomes :
                    LET msgs == candidates(generateCommitMessage(diff, outcome))
                    IN  IF msgs = <<>>
                        THEN Raise("KnownError")
                             /\ UNCHANGED <<units, live, commit_message>>
                        ELSE /\ commit_message' = msgs
                             /\ units' = SetUnit("Reviewing")
                             /\ live' = Generated(diff, provider_failed(outcome))
                             /\ pc' = "review"
                             /\ UNCHANGED error
    /\ last_message' = NoneVal
    /\ picked' = NoPick
    /\ UNCHANGED <<flags, cwd, commit_mode, staged, index, worktree, strategy, asked, groups,
                   gi, regens, commits_made, commit_made, commits, push, fnvars>>

\* ---- the three per-group functions (main.py 575-716, 719-872, 875-1004) ----
\* "Commit all ...?" and the checkbox: asked only when there is more than one entry
Selected(entries, commit_all, chosen) ==
    IF Len(entries) > 1 /\ ~commit_all THEN Pick(entries, chosen) ELSE entries

\* enter the loop over the selected entries, or return False when there are none
StartLoop(selected, notice) ==
    /\ commits_made' = FALSE
    /\ IF selected = <<>>
       THEN /\ log' = Notice(notice, <<>>)
            /\ commit_made' = FALSE
            /\ pc' = "gate"
            /\ UNCHANGED <<groups, gi>>
       ELSE /\ groups' = selected
            /\ gi' = 1
            /\ pc' = "loop"
            /\ UNCHANGED <<log, commit_made>>

EnterPerDirectory ==
    /\ pc = "enter"
    /\ strategy = "PerDirectory"
    /\ LET grouped == group_files_by_directory(staged)
       IN  \E commit_all \in BOOLEAN, chosen \in SUBSET (1..Len(grouped)) :
              StartLoop(Selected(grouped, commit_all, chosen), "none_selected")
    /\ UNCHANGED <<flags, cwd, commit_mode, staged, index, worktree, strategy, asked, units, live,
                   commit_message, regens, commits, last_message, picked, push, error, generated, calls, fnvars>>

\* the entries whose diff is not empty; failed are those whose git diff exits non-zero
WithChanges(entries, failed) ==
    SelectSeq(entries, LAMBDA e :
        get_diff_for_files(e.val, flags.excludeFiles,
                           IF e.key \in failed THEN "CalledProcessError" ELSE "ok") # <<>>)

FileEntries(files) == [i \in 1..Len(files) |-> [key |-> files[i], val |-> <<files[i]>>]]

EnterPerFile ==
    /\ pc = "enter"
    /\ strategy = "PerFile"
    /\ \/ /\ Raise("Exception")
          /\ UNCHANGED <<groups, gi, commits_made, commit_made, log>>
       \/ /\ \E failed \in SUBSET ToSet(staged) :
               LET files_with_changes == WithChanges(FileEntries(staged), failed)
               IN  \E commit_all \in BOOLEAN,
                      chosen \in SUBSET (1..Len(files_with_changes)) :
                     IF files_with_changes = <<>>
                     THEN StartLoop(<<>>, "no_changes")
                     ELSE StartLoop(Selected(files_with_changes, commit_all, chosen),
                                    "none_selected")
          /\ UNCHANGED error
    /\ UNCHANGED <<flags, cwd, commit_mode, staged, index, worktree, strategy, asked, units, live,
                   commit_message, regens, commits, last_message, picked, push, generated, calls, fnvars>>

EnterPerPath ==
    /\ pc = "enter"
    /\ strategy = "PerPath"
    /\ LET path_to_files == group_by_paths(flags.files, staged)
       IN  \/ /\ path_to_files # <<>>
              /\ Raise("Exception")
              /\ UNCHANGED <<groups, gi, commits_made, commit_made, log>>
           \/ /\ \E failed \in SUBSET ToSet(Keys(path_to_files)) :
                   IF path_to_files = <<>>
                   THEN StartLoop(<<>>, "no_files")
                   ELSE StartLoop(WithChanges(path_to_files, failed), "no_changes")
              /\ UNCHANGED error
    /\ UNCHANGED <<flags, cwd, commit_mode, staged, index, worktree, strategy, asked, units, live,
                   commit_message, regens, commits, last_message, picked, push, generated, calls, fnvars>>

\* the top of the for loop: the group's diff, then the provider call
LoopAnalyze ==
    /\ pc = "loop"
    /\ gi <= Len(groups)
    /\ \E git \in GitResults :
        LET name == groups[gi].key
            files == groups[gi].val
            diff == get_diff_for_files(files, flags.excludeFiles, git)
        IN  \/ /\ git = "OSError"
               /\ Raise("Exception")
               /\ UNCHANGED <<gi, units, live, commit_message, regens, log, generated, calls>>
            \/ /\ git # "OSError"
               /\ diff = <<>>
               /\ log' = Notice("no_diff", name)
               /\ gi' = gi + 1
               /\ UNCHANGED <<pc, error, units, live, commit_message, regens, generated, calls>>
            \/ /\ git # "OSError"
               /\ diff # <<>>
               /\ generated' = generated \cup {name}
               /\ calls' = calls \o provider_call(Len(units) + 1, diff)
               /\ \E outcome \in ProviderOutcomes :
                    LET msgs == candidates(generateCommitMessage(diff, outcome))
                    IN  IF msgs = <<>>
                        THEN /\ log' = Notice("no_message", name)
                             /\ gi' = gi + 1
                             /\ UNCHANGED <<pc, units, live, commit_message, regens>>
                        ELSE /\ units' = Append(units, NewUnit(name, files, "Reviewing"))
                             /\ live' = Generated(diff, provider_failed(outcome))
                             /\ commit_message' = msgs
                             /\ regens' = 0
                             /\ pc' = "review"
                             /\ UNCHANGED <<gi, log>>
               /\ UNCHANGED error
    /\ last_message' = NoneVal
    /\ picked' = NoPick
    /\ UNCHANGED <<flags, cwd, commit_mode, staged, index, worktree, strategy, asked, groups,
                   commits_made, commit_made, commits, push, fnvars>>

\* return commits_made
Return ==
    /\ pc = "loop"
    /\ gi > Len(groups)
    /\ commit_made' = commits_made
    /\ pc' = "gate"
    /\ last_message' = NoneVal
    /\ picked' = NoPick
    /\ UNCHANGED <<flags, cwd, commit_mode, staged, index, worktree, strategy, asked, groups, gi,
                   units, live, commit_message, regens, commits_made, commits, log, push,
                   error, generated, calls, fnvars>>

\* ---- the review of one unit (main.py 555-572, 674-714, 830-870, 962-1002) ----
\* selected_commit == "regenerate", Global: continue, so analyze_changes runs again
GlobalRegenerate(said) ==
    /\ units' = SetUnit("Generating")
    /\ regens' = regens + 1
    /\ pc' = "analyze"
    /\ log' = log \o said
    /\ last_message' = NoneVal
    /\ UNCHANGED <<index, worktree, gi, live, commit_message, commits_made, commit_made,
                   commits, error, generated, calls>>

\* elif selected_commit, Global: commit_changes(...); return True
GlobalCommit(selected, said) ==
    /\ \E status \in CommitStatuses :
            Invoke(units[Len(units)].files, selected, status)
    /\ Ended("Committed", "commit")
    /\ commit_made' = made_after_commit
    /\ pc' = "gate"
    /\ log' = log \o said \o <<[kind |-> "committed", name |-> GlobalId]>>
    /\ UNCHANGED <<gi, commits_made, error, generated>>

\* else, Global: return False
GlobalSkip(said) ==
    /\ Ended("Skipped", IF said # <<>> THEN "cancel" ELSE "falsy")
    /\ commit_made' = FALSE
    /\ pc' = "gate"
    /\ log' = log \o said
    /\ last_message' = NoneVal
    /\ UNCHANGED <<index, worktree, gi, commits_made, commits, error, generated>>

\* selected_commit == "regenerate", per group: commit_message = regenerate()
LoopRegenerate(said) ==
    /\ \E git \in GitResults :
        LET name == groups[gi].key
            diff == get_diff_for_files(groups[gi].val, flags.excludeFiles, git)
        IN  \/ /\ git = "OSError"
               /\ Raise("Exception")
               /\ log' = log \o said
               /\ UNCHANGED <<gi, units, live, commit_message, regens, generated, calls>>
            \/ /\ git # "OSError"
               /\ diff = <<>>
               /\ log' = log \o said \o <<[kind |-> "no_message", name |-> name]>>
               /\ Ended("Skipped", "no_message")
               /\ gi' = gi + 1
               /\ pc' = "loop"
               /\ UNCHANGED <<error, generated>>
            \/ /\ git # "OSError"
               /\ diff # <<>>
               /\ generated' = generated \cup {name}
               /\ \E outcome \in ProviderOutcomes :
                    LET msgs == candidates(generateCommitMessage(diff, outcome))
                    IN  IF msgs = <<>>
                        THEN /\ log' = log \o said
                                     \o <<[kind |-> "no_message", name |-> name]>>
                             /\ Ended("Skipped", "no_message")
                             /\ gi' = gi + 1
                             /\ pc' = "loop"
                        ELSE /\ log' = log \o said
                             /\ calls' = calls \o provider_call(Len(units), diff)
                             /\ commit_message' = msgs
                             /\ live' = Generated(diff, provider_failed(outcome))
                             /\ regens' = regens + 1
                             /\ UNCHANGED <<gi, pc, units>>
               /\ UNCHANGED error
    /\ last_message' = NoneVal
    /\ UNCHANGED <<index, worktree, commits_made, commit_made, commits>>

\* a commit branch that stays in the while loop of the review
after_commit_in_review == "review"

\* break: the commit branch leaves the while loop (main.py 711, 867, 999)
after_commit == "loop"

\* elif selected_commit, per group: git commit -m selected_commit -- files
LoopCommit(selected, said) ==
    /\ \E status \in CommitStatuses : Invoke(groups[gi].val, selected, status)
    /\ Ended("Committed", "commit")
    /\ commits_made' = made_after_commit
    /\ log' = log \o said \o <<[kind |-> "committed", name |-> groups[gi].key]>>
    /\ gi' = gi + 1
    /\ pc' = after_commit
    /\ UNCHANGED <<commit_made, error, generated>>

\* else, per group: "Skipped {directory}"
LoopSkip(said) ==
    /\ Ended("Skipped", IF said # <<>> THEN "cancel" ELSE "falsy")
    /\ log' = log \o said \o <<[kind |-> "skipped", name |-> groups[gi].key]>>
    /\ gi' = gi + 1
    /\ pc' = "loop"
    /\ last_message' = NoneVal
    /\ UNCHANGED <<index, worktree, commits_made, commit_made, commits, error, generated>>

\* what the caller does with prompt_commit_message's return value
Handle(selected, said) ==
    /\ IF selected = StrRegenerate
       THEN /\ regens < MaxRegen
            /\ IF strategy = "Global" THEN GlobalRegenerate(said) ELSE LoopRegenerate(said)
       ELSE IF Truthy(selected)
       THEN IF strategy = "Global"
            THEN GlobalCommit(selected, said)
            ELSE LoopCommit(selected, said)
       ELSE IF strategy = "Global" THEN GlobalSkip(said) ELSE LoopSkip(said)
    /\ UNCHANGED <<flags, cwd, commit_mode, staged, strategy, asked, groups, push, fnvars>>

\* "Commit cancelled", printed by prompt_commit_message itself
Said(action) ==
    IF action = StrCancel THEN <<[kind |-> "cancelled", name |-> <<>>]>> ELSE <<>>

ChooseCandidate ==
    /\ pc = "review"
    /\ \E i \in 1..Len(commit_message) :
          /\ Handle(prompt_commit_message(commit_message[i], <<>>),
                    Said(commit_message[i]))
          /\ picked' = Pick1("candidate", commit_message[i])

\* the text prompt keeps the input and asks again while validate rejects it
ChooseCustom ==
    /\ pc = "review"
    /\ \E typed \in CustomInputs \cup {Blank} :
          IF validate(typed)
          THEN /\ Handle(prompt_commit_message(StrCustom, typed), Said(StrCustom))
               /\ picked' = Pick1("custom", typed)
          ELSE /\ picked' = Pick1("rejected", typed)
               /\ UNCHANGED <<flags, cwd, commit_mode, staged, index, worktree, pc, strategy,
                              asked, groups, gi, units, live, commit_message, regens,
                              commits_made, commit_made, commits, last_message, generated,
                              calls, log, push, error, fnvars>>

ChooseRegenerate ==
    /\ pc = "review"
    /\ Handle(prompt_commit_message(StrRegenerate, <<>>), Said(StrRegenerate))
    /\ picked' = Pick1("regenerate", <<>>)

ChooseCancel ==
    /\ pc = "review"
    /\ Handle(prompt_commit_message(StrCancel, <<>>), Said(StrCancel))
    /\ picked' = Pick1("cancel", <<>>)

\* ---- the push gate (main.py 228-242) and push_changes (main.py 455-489) ----
push_gate_open_without_commit == flags.push

\* if flags.get("push", False) and commit_made
push_gate_open == flags.push /\ commit_made

\* has_commits_to_push(): commits ahead, none ahead, or KnownError (push anyway)
UpstreamChecks == {"ahead", "none", "KnownError"}

\* git push run whatever the check answered
pushes_unchecked(check) == 1

\* how often push_changes runs git push (main.py 458-478)
pushes(check) == IF check = "none" THEN 0 ELSE 1

\* a push gate that hands control back to the loop
after_gate_in_loop == "loop"

\* main returns after the push gate and the summary (main.py 228-242)
after_gate == "done"

Gate ==
    /\ pc = "gate"
    /\ \/ /\ push_gate_open
          /\ \E check \in UpstreamChecks, status \in CommitStatuses :
                IF pushes(check) = 0
                THEN /\ push' = [entered |-> TRUE, checked |-> TRUE, upstream |-> check,
                                 invoked |-> 0]
                     /\ log' = Notice("nothing_to_push", <<>>)
                                \o <<[kind |-> "summary", name |-> <<>>]>>
                     /\ pc' = after_gate
                     /\ UNCHANGED error
                ELSE /\ push' = [entered |-> TRUE, checked |-> TRUE, upstream |-> check,
                                 invoked |-> pushes(check)]
                     /\ IF status = 0
                        THEN /\ log' = Notice("pushed", <<>>)
                                        \o <<[kind |-> "summary", name |-> <<>>]>>
                             /\ pc' = after_gate
                             /\ UNCHANGED error
                        ELSE /\ Raise("KnownError")
                             /\ UNCHANGED log
       \/ /\ ~push_gate_open
          /\ log' = log
                \o (IF flags.push /\ ~commit_made
                    THEN <<[kind |-> "no_commits_skip_push", name |-> <<>>]>> ELSE <<>>)
                \o (IF commit_made THEN <<[kind |-> "summary", name |-> <<>>]>> ELSE <<>>)
          /\ pc' = after_gate
          /\ UNCHANGED <<push, error>>
    /\ last_message' = NoneVal
    /\ picked' = NoPick
    /\ UNCHANGED <<flags, cwd, commit_mode, staged, index, worktree, strategy, asked, groups,
                   gi, units, live, commit_message, regens, commits_made, commit_made,
                   commits, generated, calls, fnvars>>

\* Ctrl-C while main waits for git, the provider or a prompt: KeyboardInterrupt
\* is caught nowhere before main's handler (main.py 244-246), which returns
Interrupt ==
    /\ pc \notin {"idle", "done", "aborted"}
    /\ Raise("KeyboardInterrupt")
    /\ log' = Notice("interrupted", <<pc>>)
    /\ last_message' = NoneVal
    /\ picked' = NoPick
    /\ UNCHANGED <<flags, cwd, commit_mode, staged, index, worktree, strategy, asked,
                   groups, gi, units, live, commit_message, regens, commits_made,
                   commit_made, commits, generated, calls, push, fnvars>>

Next ==
    \/ Collect
    \/ Interrupt
    \/ Resolve
    \/ EnterGlobal
    \/ GlobalAnalyze
    \/ EnterPerDirectory
    \/ EnterPerFile
    \/ EnterPerPath
    \/ LoopAnalyze
    \/ Return
    \/ ChooseCandidate
    \/ ChooseCustom
    \/ ChooseRegenerate
    \/ ChooseCancel
    \/ Gate

Spec == Init /\ [][Next]_vars

(***************************************************************************)
(* The run from the strategy decision on, while the staging area is        *)
(* changed from outside: the diff of a unit is read again by every         *)
(* analyze_changes and regenerate() call (main.py 303-306, 676).           *)
(***************************************************************************)
\* git restore --staged f in another terminal while the candidates are shown
Unstage ==
    /\ pc = "review"
    /\ \E f \in index :
          /\ index' = index \ {f}
          /\ worktree' = worktree \cup {f}
    /\ UNCHANGED <<flags, cwd, commit_mode, staged, pc, strategy, asked, groups, gi, units,
                   live, commit_message, regens, commits_made, commit_made, commits,
                   last_message, picked, generated, calls, log, push, error, fnvars>>

\* main() with two staged files detected (in two directories, or in one), no --files
InitRegen ==
    /\ flags \in [push : {FALSE}, directory : BOOLEAN, stageAll : {FALSE}, files : {<<>>},
                  excludeFiles : {<<>>}, rawArgv : {<<>>}]
    /\ cwd = RepoRoot
    /\ commit_mode = DefaultCommitMode
    /\ staged \in {<<FileM, FileSA>>, <<FileSA, FileSTC>>}
    /\ index = ToSet(staged)
    /\ worktree = {}
    /\ MainAt("resolve")
    /\ FnIdle

NextRegen ==
    \/ Resolve
    \/ EnterGlobal
    \/ GlobalAnalyze
    \/ EnterPerDirectory
    \/ LoopAnalyze
    \/ Return
    \/ ChooseCandidate
    \/ ChooseCustom
    \/ ChooseRegenerate
    \/ ChooseCancel
    \/ Gate
    \/ Unstage

SpecRegen == InitRegen /\ [][NextRegen]_vars

(***************************************************************************)
(* The helpers called on their own, on every input within the bounds.      *)
(***************************************************************************)
SeqsUpTo(S, n) == UNION {[1..k -> S] : k \in 0..n}

FileRootX == <<"r","o","o","t","/","x">>

\* file paths: in a directory, nested, at the top, under a directory named root
GroupFiles == {FileSA, FileSTC, FileDR, FileM, FileRootX}

\* no main() is running
NoRun ==
    /\ flags = [push |-> FALSE, directory |-> FALSE, stageAll |-> FALSE, files |-> <<>>,
                excludeFiles |-> <<>>, rawArgv |-> <<>>]
    /\ commit_mode = DefaultCommitMode
    /\ staged = <<>>
    /\ cwd = RepoRoot
    /\ index = {}
    /\ worktree = {}
    /\ MainAt("idle")

InitGroup ==
    /\ arg \in {[files |-> fs] : fs \in SeqsUpTo(GroupFiles, MaxLen)}
    /\ ret = <<>>
    /\ called = "call_group"
    /\ NoRun

CallGroup ==
    /\ called = "call_group"
    /\ ret' = group_files_by_directory(arg.files)
    /\ called' = "group"
    /\ UNCHANGED <<arg, mainvars>>

SpecGroup == InitGroup /\ [][CallGroup]_vars

\* explicit paths: directories (one nested, one with a trailing separator), files
PathArgs == {DirS, DirST, DirD, FileM, FileSA}

InitPaths ==
    /\ arg \in {[paths |-> ps, files |-> fs] :
                    ps \in SeqsUpTo(PathArgs, MaxPaths), fs \in ChangeSets(<<>>)}
    /\ ret = <<>>
    /\ called = "call_paths"
    /\ NoRun

CallPaths ==
    /\ called = "call_paths"
    /\ ret' = group_by_paths(arg.paths, arg.files)
    /\ called' = "paths"
    /\ UNCHANGED <<arg, mainvars>>

SpecPaths == InitPaths /\ [][CallPaths]_vars

\* config("COMMIT_MODE"): the three values the strategy decision reads
CommitModes == {"auto", "directory", "global"}

\* main() with the ChangeSet collected, under every configured mode
InitResolve ==
    /\ flags \in [push : {FALSE}, directory : BOOLEAN, stageAll : {FALSE},
                  files : {ps \in PathChoices : ~InList(FileX, ps)},
                  excludeFiles : {<<>>},
                  rawArgv : {<<>>}]
    /\ cwd = RepoRoot
    /\ commit_mode \in CommitModes
    /\ staged \in ChangeSets(flags.files)
    /\ index = ToSet(staged)
    /\ worktree = {}
    /\ MainAt("resolve")
    /\ FnIdle

SpecResolve == InitResolve /\ [][Resolve]_vars

\* explicit paths for get_files_from_paths: directories, files, a file written
\* with a leading "./", an absolute path, a path that is not on disk
FileArgs ==
    {DirS, DirST, DirD, FileM, FileSA, <<".","/","m">>, RepoRoot \o <<Sep>> \o FileM,
     FileX}

InitFiles ==
    /\ arg \in {[paths |-> ps, cwd |-> c] : ps \in SeqsUpTo(FileArgs, MaxPaths), c \in Cwds}
    /\ ret = <<>>
    /\ called = "call_files"
    /\ NoRun

CallFiles ==
    /\ called = "call_files"
    /\ ret' = get_files_from_paths(arg.paths, arg.cwd)
    /\ called' = "files"
    /\ UNCHANGED <<arg, mainvars>>

SpecFiles == InitFiles /\ [][CallFiles]_vars

(***************************************************************************)
(* The claims.                                                             *)
(***************************************************************************)
AnyUnitCommitted == \E u \in 1..Len(units) : units[u].state = "Committed"

\* the files whose staged changes the run committed
CommittedFiles ==
    UNION {ToSet(commits[k].files) : k \in {n \in 1..Len(commits) : commits[n].status = 0}}

\* the push gate was evaluated: main is at or past line 228
GateEvaluated == pc = "done" \/ (pc = "aborted" /\ push.entered)

\* C1: in a per-directory run a group whose provider call failed ends Skipped:
\* it is never under review with the failure text as its candidate message.
C1_FailedGroupNeverReviewed ==
    (strategy = "PerDirectory" /\ live.failed) => pc # "review"

\* C2: in a non-Global run a failure raised while a group is processed never
\* ends the run: once the loop is entered the run is aborted only inside the
\* push (so every later group was processed and the push gate evaluated), and
\* a group whose provider call failed is skipped, not reviewed.
C2_GroupFailureNeverAborts ==
    (strategy \in {"PerDirectory", "PerFile", "PerPath"} /\ gi >= 1) =>
        /\ (pc = "aborted" /\ error # "KeyboardInterrupt") => push.entered
        /\ live.failed => pc # "review"

\* C3: anyCommitted is true exactly when a unit reached Committed: it starts
\* false, the loop's accumulator is true exactly when a unit processed so far
\* committed (so a later skipped or cancelled unit does not reset it), and the
\* value the push gate reads is true exactly when some unit committed.
C3_AnyCommittedIffUnitCommitted ==
    /\ pc \in {"start", "resolve", "enter"} => ~commit_made /\ ~commits_made
    /\ (strategy # "Global" /\ pc \in {"loop", "review"}) =>
            (commits_made <=> AnyUnitCommitted)
    /\ (pc = "gate" \/ GateEvaluated) => (commit_made <=> AnyUnitCommitted)

\* C3 witness: a unit committed, a later unit was skipped, the gate read true
C3_Witness ==
    /\ pc = "done"
    /\ commit_made
    /\ Len(units) >= 2
    /\ units[1].state = "Committed"
    /\ units[Len(units)].state = "Skipped"

\* C4: anyCommitted is set only by a commit operation that succeeded: a unit
\* whose commit operation exits non-zero is not Committed, anyCommitted is true
\* only if some commit operation exited zero, and so is entering the push.
C4_OnlySuccessfulCommitCounts ==
    LET succeeded == \E k \in 1..Len(commits) : commits[k].status = 0
    IN  /\ \A k \in 1..Len(commits) :
              commits[k].status # 0 => units[commits[k].unit].state # "Committed"
        /\ (commit_made \/ commits_made) => succeeded
        /\ push.entered => succeeded

\* C5: push_changes is entered if and only if the push flag is set and
\* anyCommitted is true; with the flag set and no commit made the run reports
\* that no commits were made and git push is not invoked.
C5_PushIffFlagAndCommitted ==
    /\ push.entered => (flags.push /\ commit_made)
    /\ push.invoked > 0 => push.entered
    /\ GateEvaluated => (push.entered <=> (flags.push /\ commit_made))
    /\ (pc = "done" /\ flags.push /\ ~commit_made) =>
            /\ \E n \in 1..Len(log) : log[n].kind = "no_commits_skip_push"
            /\ push.invoked = 0

\* C5 witness: the flag was set, a unit committed, git push was invoked
C5_Witness ==
    /\ pc = "done"
    /\ flags.push
    /\ commit_made
    /\ push.invoked = 1

\* C6: no commit operation of the run that succeeded includes a file of a unit
\* the user cancelled in its review.
C6_CancelledFilesNeverCommitted ==
    \A u \in 1..Len(units) :
        units[u].how = "cancel" =>
            \A k \in 1..Len(commits) :
                commits[k].status = 0 =>
                    ToSet(commits[k].files) \cap ToSet(units[u].files) = {}

\* C7: every commit operation is scoped to exactly the file list of the unit
\* being processed, and when the loop is over the files the run committed are
\* the union of the file lists of the units that reached Committed.
C7_CommittedFilesAreCommittedUnits ==
    /\ \A k \in 1..Len(commits) : commits[k].files = units[commits[k].unit].files
    /\ (pc = "gate" \/ GateEvaluated) =>
            CommittedFiles =
                UNION {ToSet(units[u].files) :
                          u \in {v \in 1..Len(units) : units[v].state = "Committed"}}

\* C8: the groups group_files_by_directory returns are pairwise disjoint and
\* their union is the set of the input files.
C8_GroupsPartitionInput ==
    called = "group" =>
        /\ \A i, j \in 1..Len(ret) :
              i # j => ToSet(ret[i].val) \cap ToSet(ret[j].val) = {}
        /\ UNION {ToSet(ret[i].val) : i \in 1..Len(ret)} = ToSet(arg.files)

\* C8 witness: three files, one of them repeated in the input, in two groups
C8_Witness ==
    /\ called = "group"
    /\ Len(arg.files) = 3
    /\ Cardinality(ToSet(arg.files)) = 2
    /\ Len(ret) = 2

\* whether a file belongs to an explicit path: it is the path or lies under it
Matches(f, path) ==
    f = normpath(path) \/ startswith(f, normpath(path) \o <<Sep>>)

\* C9: the path grouping never puts one file in two different path groups, a
\* file matching no given path is in no group, and a path matching no file
\* has no group entry.
C9_PathGroupsDisjoint ==
    called = "paths" =>
        /\ \A i, j \in 1..Len(ret) :
              i # j => ToSet(ret[i].val) \cap ToSet(ret[j].val) = {}
        /\ \A f \in ToSet(arg.files) :
              (\A n \in 1..Len(arg.paths) : ~Matches(f, arg.paths[n])) =>
                  \A i \in 1..Len(ret) : f \notin ToSet(ret[i].val)
        /\ \A n \in 1..Len(arg.paths) :
              (\A f \in ToSet(arg.files) : ~Matches(f, arg.paths[n])) =>
                  ~HasKey(ret, normpath(arg.paths[n]))

\* C10: under Global exactly one unit is created, whatever the number of
\* directory groups, its file list is the whole ChangeSet, and at most one
\* commit operation is invoked, scoped to that file list.
C10_GlobalOneUnitAllFiles ==
    strategy = "Global" =>
        /\ Len(units) <= 1
        /\ pc \in {"analyze", "review", "gate", "done"} => Len(units) = 1
        /\ \A u \in 1..Len(units) : units[u].files = staged
        /\ Len(commits) <= 1
        /\ \A k \in 1..Len(commits) : commits[k].files = staged

\* C10 witness: three directory groups were shown, one commit of all the files
C10_Witness ==
    /\ strategy = "Global"
    /\ asked
    /\ Len(group_files_by_directory(staged)) = 3
    /\ pc = "done"
    /\ Len(commits) = 1
    /\ commits[1].status = 0
    /\ index = {}

\* a notice of this kind was printed
Logged(kind) == \E n \in 1..Len(log) : log[n].kind = kind

\* a unit was created for the group of this name
HasUnit(name) == \E u \in 1..Len(units) : units[u].id = name

\* the notices "No diff for {group}, skipping"
NoDiffNotices == {n \in 1..Len(log) : log[n].kind = "no_diff"}

\* the groups of the explicit paths before the ones without changes are dropped
PathGroups == group_by_paths(flags.files, staged)

\* C11: under a non-Global strategy a group with an empty diff never produces a
\* unit: no provider call, no review and no commit are made for it, a notice
\* is emitted for it, and the next group is processed; so there are at most as
\* many units as groups with a non-empty diff.
C11_EmptyDiffGroupNoUnit ==
    strategy \in {"PerDirectory", "PerFile", "PerPath"} =>
        /\ pc = "review" => live.diff # <<>>
        /\ \A n \in NoDiffNotices :
              /\ ~HasUnit(log[n].name)
              /\ log[n].name \notin generated
              /\ \A g \in 1..Len(groups), k \in 1..Len(commits) :
                    groups[g].key = log[n].name => commits[k].files # groups[g].val
        /\ Len(units) + Cardinality(NoDiffNotices) <= Len(groups)
        /\ (strategy = "PerPath" /\ pc \in {"loop", "review", "gate", "done"}) =>
              \A i \in 1..Len(PathGroups) :
                  \/ InList(PathGroups[i], groups)
                  \/ Logged("no_changes")

\* "regenerate" was chosen for the unit being processed
Regenerated == regens > 0 \/ picked.entry = "regenerate"

\* C12: after any number of regenerate selections the unit is back in Reviewing
\* with a non-empty candidate list, or its generation failed and it is Skipped;
\* regenerating never ends the run, never leaves the unit without a terminal
\* state and never invokes a commit.
C12_RegenerateKeepsUnit ==
    (units # <<>> /\ Regenerated /\ error # "KeyboardInterrupt") =>
        /\ \/ /\ pc = "review"
              /\ units[Len(units)].state = "Reviewing"
              /\ commit_message # <<>>
           \/ /\ pc = "analyze"
              /\ units[Len(units)].state = "Generating"
           \/ /\ pc # "aborted"
              /\ units[Len(units)].state = "Skipped"
        /\ picked.entry = "regenerate" => last_message = NoneVal

\* the run went past collection and was not interrupted by the user
Uninterrupted == pc # "start" /\ error # "KeyboardInterrupt"

\* C13: a run without explicit paths that finds no staged change after the
\* exclusion filter fails with the empty-change-set error, calls the provider
\* zero times, invokes no commit and does not push.
C13_EmptyChangeSetFails ==
    (/\ flags.files = <<>>
     /\ cwd = RepoRoot
     /\ Uninterrupted
     /\ ~Logged("error_staging_failed")
     /\ commits = <<>>
     /\ get_staged_diff(flags.excludeFiles, "ok", index) = <<>>) =>
        /\ pc = "aborted"
        /\ error = "KnownError"
        /\ Logged("error_no_staged_changes")
        /\ staged = <<>>
        /\ units = <<>>
        /\ generated = {}
        /\ push = NoPush

\* C13 witness: two files are modified but nothing is staged, and the run ended
\* with the empty-change-set error
C13_Witness ==
    /\ flags.files = <<>>
    /\ ~flags.stageAll
    /\ index = {}
    /\ worktree = {FileM, FileSA}
    /\ pc = "aborted"
    /\ error = "KnownError"
    /\ Logged("error_no_staged_changes")
    /\ commits = <<>>

\* C14: a run-fatal error of collection (not a repository, a path that does
\* not exist, an empty ChangeSet) is raised before any unit exists and leaves
\* the staging area and the working tree exactly as they were at start,
\* whatever --stageAll, --files and --excludeFiles are.
C14_FatalErrorLeavesRepository ==
    [][(pc = "start" /\ pc' = "aborted" /\ error' = "KnownError") =>
          (index' = index /\ worktree' = worktree /\ units' = <<>>)]_vars

\* Ctrl-C arrived while a unit was being generated or reviewed
InterruptedInUnit ==
    \E n \in 1..Len(log) :
        /\ log[n].kind = "interrupted"
        /\ log[n].name \in {<<"analyze">>, <<"review">>}

\* C15: a user interrupt while a unit is generated or reviewed aborts only that
\* unit: the unit ends Skipped, the remaining groups are processed, the commits
\* made so far stay counted and the push gate is still evaluated.
C15_InterruptSkipsOnlyUnit ==
    InterruptedInUnit =>
        /\ units # <<>>
        /\ \A u \in 1..Len(units) : units[u].state \in {"Committed", "Skipped"}
        /\ pc = "aborted" => GateEvaluated
        /\ pc \in {"done", "aborted"} => (commit_made <=> AnyUnitCommitted)

\* the strategy was resolved by main.py 159-195 and nothing else has run
Resolved == pc = "enter"

\* C16 as stated: flag, then configuration, then prompt; with the flag the
\* strategy is non-Global without a prompt, otherwise COMMIT_MODE "directory"
\* gives PerDirectory and "global" gives Global without a prompt, and the prompt
\* is reached only with the flag unset and COMMIT_MODE "auto".
C16_ConfigDirectoryIsPerDirectory ==
    Resolved =>
        /\ flags.directory => (strategy # "Global" /\ ~asked)
        /\ (~flags.directory /\ commit_mode = "directory") =>
               (strategy = "PerDirectory" /\ ~asked)
        /\ (~flags.directory /\ commit_mode = "global") =>
               (strategy = "Global" /\ ~asked)
        /\ asked => (~flags.directory /\ commit_mode = "auto")

\* C16, amended: flag, then configuration, then prompt; with the flag, or with
\* COMMIT_MODE "directory", the strategy is the non-Global one of the run
\* (PerDirectory without --files, per file or per path with --files) without a
\* prompt; "global" gives Global without a prompt; the prompt is reached only
\* with the flag unset and COMMIT_MODE "auto".
C16_FlagThenConfigThenPrompt ==
    Resolved =>
        /\ (flags.directory \/ commit_mode = "directory") =>
               /\ ~asked
               /\ strategy # "Global"
               /\ flags.files = <<>> <=> strategy = "PerDirectory"
        /\ (~flags.directory /\ commit_mode = "global") =>
               (strategy = "Global" /\ ~asked)
        /\ asked => (~flags.directory /\ commit_mode = "auto")

\* C16 witness: COMMIT_MODE "directory" without the flag, explicit files: the
\* run commits per file, and no prompt was shown
C16_Witness ==
    /\ Resolved
    /\ ~flags.directory
    /\ commit_mode = "directory"
    /\ flags.files = <<FileM, FileSA>>
    /\ strategy = "PerFile"
    /\ ~asked

\* the directory groups shown to the user in auto mode
grouped == group_files_by_directory(staged)

\* C17 as stated: in auto mode one group resolves to Global without a strategy
\* prompt, with or without --files, and the prompt is shown only when there is
\* more than one group.
C17_OneGroupNeverPrompts ==
    (Resolved /\ ~flags.directory /\ commit_mode = "auto") =>
        /\ Len(grouped) = 1 => (strategy = "Global" /\ ~asked)
        /\ asked => Len(grouped) > 1

\* C17, amended: in auto mode without --files one group resolves to Global
\* without a strategy prompt and the prompt is shown exactly when there is more
\* than one group; with --files the prompt is always shown.
C17_OneGroupNoPromptWithoutFiles ==
    (Resolved /\ ~flags.directory /\ commit_mode = "auto") =>
        /\ (flags.files = <<>> /\ Len(grouped) = 1) => (strategy = "Global" /\ ~asked)
        /\ flags.files = <<>> => (asked <=> Len(grouped) > 1)
        /\ flags.files # <<>> => asked
        /\ ~asked => strategy = "Global"

\* C17 witness: auto mode, no --files, one directory group: Global, no prompt
C17_Witness ==
    /\ Resolved
    /\ ~flags.directory
    /\ commit_mode = "auto"
    /\ flags.files = <<>>
    /\ Len(grouped) = 1
    /\ Len(staged) > 1
    /\ strategy = "Global"
    /\ ~asked

\* C18: when push was requested and a commit was made, push_changes first
\* checks the upstream; if the check answers that nothing is ahead it reports
\* that there is nothing to push and never runs git push; otherwise it runs
\* git push exactly once.
C18_PushOnlyWhenAhead ==
    /\ (GateEvaluated /\ flags.push /\ commit_made) => push.entered
    /\ push.entered =>
          /\ push.checked
          /\ push.upstream \in UpstreamChecks
          /\ push.upstream = "none" =>
                (push.invoked = 0 /\ Logged("nothing_to_push") /\ ~Logged("pushed"))
          /\ push.upstream # "none" => push.invoked = 1

\* C18 witness: a commit was made, push was requested, nothing is ahead of the
\* upstream: the run ended without a git push
C18_Witness ==
    /\ pc = "done"
    /\ flags.push
    /\ commit_made
    /\ push.entered
    /\ push.upstream = "none"
    /\ push.invoked = 0
    /\ Logged("nothing_to_push")

\* C19: a selected candidate, or a custom message that is not empty after
\* trimming, is committed with exactly that text, whatever the text is, the
\* texts "regenerate", "cancel" and "custom" included.
C19_ChosenTextIsCommitted ==
    /\ picked.entry = "candidate" =>
          /\ units[Len(units)].state = "Committed"
          /\ last_message = picked.text
    /\ (picked.entry = "custom" /\ strip(picked.text) # <<>>) =>
          /\ units[Len(units)].state = "Committed"
          /\ last_message = strip(picked.text)

\* the repository-relative spelling of an explicit path
Relative(path) == IF isabs(path) THEN relpath(path, RepoRoot) ELSE normpath(path)

\* whether a tracked file is the explicit path or lies under it
Covers(path, f) == f = Relative(path) \/ startswith(f, Relative(path) \o <<Sep>>)

MissingPath == InList(FileX, flags.files)

\* C21: if an explicit path given with --files does not exist, collection fails
\* with the path-not-found error for the whole call, no partial file list is
\* used, and the run ends before any staging, provider call or commit, also
\* with --stageAll.
C21_MissingPathFailsWholeCall ==
    [][(pc = "start" /\ MissingPath /\ cwd = RepoRoot /\ error' # "KeyboardInterrupt") =>
          /\ pc' = "aborted"
          /\ error' = "KnownError"
          /\ Logged("error_path_does_not_exist")'
          /\ staged' = <<>>
          /\ index' = index
          /\ worktree' = worktree
          /\ units' = <<>>
          /\ calls' = <<>>
          /\ commits' = <<>>]_vars

\* C21 witness: --stageAll --files m x with m modified and x missing: the run
\* ended with the path-not-found error and m is still unstaged
C21_Witness ==
    /\ flags.files = <<FileM, FileX>>
    /\ flags.stageAll
    /\ pc = "aborted"
    /\ Logged("error_path_does_not_exist")
    /\ FileM \in worktree
    /\ FileM \notin index

\* every unit of the run was cancelled or skipped
AllUnitsSkipped == units # <<>> /\ \A u \in 1..Len(units) : units[u].state = "Skipped"

\* C22: a run in which at least one commit was made ends with the success
\* summary, also when a later unit was skipped or the requested push failed; a
\* run that ends without a commit because every unit was cancelled or skipped
\* ends without an error report.
C22_CommitMeansSuccessSummary ==
    GateEvaluated =>
        /\ AnyUnitCommitted => Logged("summary")
        /\ AllUnitsSkipped => (error = "none" /\ ~Logged("summary"))

\* the states a unit never leaves
Terminal == {"Committed", "Skipped"}

\* C23: Committed and Skipped are absorbing: a unit that committed or was
\* skipped is never reviewed again, the provider is not called for it again,
\* and at most one commit operation is invoked per unit.
C23_TerminalStatesAbsorbing ==
    [][/\ \A u \in 1..Len(units) :
             units[u].state \in Terminal => (Len(units') >= u /\ units'[u] = units[u])
       /\ pc' = "review" => units'[Len(units')].state = "Reviewing"
       /\ \A k \in 1..Len(calls') :
             calls'[k].unit <= Len(units') => units'[calls'[k].unit].state \notin Terminal
       /\ \A k1, k2 \in 1..Len(commits') :
             commits'[k1].unit = commits'[k2].unit => k1 = k2
       /\ \A k \in 1..Len(commits') \ 1..Len(commits) :
             units[commits'[k].unit].state \notin Terminal]_vars

\* C23 witness: the first unit was committed, the second is under review after a
\* regenerate
C23_Witness ==
    /\ Len(units) = 2
    /\ units[1].state = "Committed"
    /\ units[2].state = "Reviewing"
    /\ pc = "review"
    /\ regens = 1
    /\ Len(calls) = 2
    /\ Len(commits) = 1

\* C24: regenerate sends the provider the diff text captured when the unit was
\* created: every provider call of a unit gets the same diff, even if the
\* staging area changed in between, for the Global unit and for group units.
C24_RegenerateUsesCapturedDiff ==
    /\ \A k \in 1..Len(calls) : calls[k].diff = calls[1].diff
    /\ pc = "review" => live.diff = calls[1].diff

\* analyze_changes found an empty diff for the Global unit
EmptyGlobalDiff == strategy = "Global" /\ Logged("error_no_diff")

\* C25: when the diff of the Global unit is empty at generation time the unit
\* becomes Skipped with a warning and the run completes normally, without a
\* commit and with the push gate evaluated; the run does not end with an error.
C25_EmptyGlobalDiffSkips ==
    EmptyGlobalDiff =>
        /\ units[1].state = "Skipped"
        /\ error = "none"
        /\ pc # "aborted"
        /\ ~commit_made

\* C26: when the provider's reply holds no usable text, generation fails and the
\* unit is Skipped without a review: the candidates shown in a review are never
\* an empty list and never contain an empty string.
C26_EmptyReplyNeverReviewed ==
    pc = "review" =>
        /\ commit_message # <<>>
        /\ \A i \in 1..Len(commit_message) : commit_message[i] # <<>>

\* C27: units are never interleaved: at every point at most one unit, the
\* latest, is not in a terminal state, and the provider call, the review and
\* the commit of a group come only after the unit of the previous group reached
\* Committed or Skipped.
C27_UnitsNeverInterleaved ==
    /\ \A u \in 1..Len(units) : u < Len(units) => units[u].state \in Terminal
    /\ pc = "loop" => \A u \in 1..Len(units) : units[u].state \in Terminal
    /\ \A k \in 1..Len(calls) : calls[k].unit = Len(units)
    /\ \A k \in 1..Len(commits) :
          /\ commits[k].unit <= Len(units)
          /\ k > 1 => commits[k - 1].unit < commits[k].unit

\* C27 witness: the first group's unit was skipped and the second group's unit
\* is under review
C27_Witness ==
    /\ Len(units) = 2
    /\ units[1].state = "Skipped"
    /\ units[2].state = "Reviewing"
    /\ pc = "review"
    /\ Len(calls) = 1
    /\ commits = <<>>

\* C28: the push gate is evaluated at most once and only after the loop over
\* the groups has finished: after it there is no provider call, no review and
\* no commit, and git push is invoked at most once in a run.
C28_GateOnceAfterLoop ==
    [][/\ pc \in {"gate", "done"} =>
             /\ pc' \in {"done", "aborted"}
             /\ calls' = calls
             /\ commits' = commits
             /\ units' = units
       /\ push'.entered => (pc = "gate" /\ ~push.entered)
       /\ push.entered => push' = push
       /\ push'.invoked <= 1
       /\ pc' = "gate" => \A u \in 1..Len(units') : units'[u].state \in Terminal]_vars

\* C28 witness: two units were processed, then the gate ran git push once
C28_Witness ==
    /\ pc = "done"
    /\ Len(units) = 2
    /\ push.entered
    /\ push.invoked = 1
    /\ Logged("pushed")

\* C29: the provider is called exactly once each time a unit enters Generating
\* with a diff: a unit under review has had one call plus one per regenerate
\* selection that found a non-empty diff, and no call is made with an empty
\* diff text.
C29_OneProviderCallPerGeneration ==
    /\ \A k \in 1..Len(calls) : calls[k].diff # <<>>
    /\ pc = "review" => Len(calls) = 1 + regens
    /\ pc = "analyze" => Len(calls) = regens
    /\ pc = "loop" => calls = <<>>

\* C29 witness: the Global unit is under review after one regenerate: two calls
C29_Witness ==
    /\ strategy = "Global"
    /\ pc = "review"
    /\ regens = 1
    /\ Len(calls) = 2
    /\ calls[1].diff = calls[2].diff

\* the run is over: main returned, or an error other than Ctrl-C was reported
RunOver == pc = "done" \/ (pc = "aborted" /\ error \in {"KnownError", "CalledProcessError"})

\* C30: if every external call returns and regenerate is selected finitely often,
\* every run terminates: each created unit reaches Committed or Skipped, and the
\* run reaches the push gate or ends with a reported error.
C30_EveryUnitReachesTerminal ==
    RunOver => \A u \in 1..Len(units) : units[u].state \in Terminal

\* C31: a custom message reaches the commit operation only if it is not empty
\* after trimming, and it is committed in trimmed form; an all-whitespace input
\* is rejected by the validator and asked for again, the unit staying under
\* review; an empty custom result cancels the unit without a commit.
C31_CustomMessageTrimmedOrRejected ==
    /\ picked.entry = "custom" => strip(picked.text) # <<>>
    /\ (picked.entry = "custom" /\ last_message # NoneVal) =>
          /\ last_message = strip(picked.text)
          /\ units[Len(units)].state = "Committed"
    /\ picked.entry = "rejected" =>
          /\ strip(picked.text) = <<>>
          /\ pc = "review"
          /\ units[Len(units)].state = "Reviewing"
          /\ last_message = NoneVal
    /\ \A typed \in CustomInputs \cup {Blank, <<>>} :
          strip(typed) = <<>> => ~Truthy(prompt_commit_message(StrCustom, typed))

\* C31 witness: " k " was typed and the commit was invoked with "k"
C31_Witness ==
    /\ picked = Pick1("custom", <<" ","k"," ">>)
    /\ last_message = <<"k">>
    /\ units[Len(units)].state = "Committed"
    /\ Len(commits) = 1

\* a file at the top of the repository: its path has no directory component
NoDirectory(f) == Len(split(f, Sep)) = 1

\* C32: in group_files_by_directory the key of every file with a directory
\* component is its first path segment, the bucket named "root" holds exactly
\* the files without a directory component, and no group holds both a file
\* without a directory component and a file with one.
C32_RootBucketOnlyTopLevelFiles ==
    called = "group" =>
        \A i \in 1..Len(ret) :
            /\ \A f \in ToSet(ret[i].val) :
                  /\ ~NoDirectory(f) => ret[i].key = split(f, Sep)[1]
                  /\ ret[i].key = RootBucket <=> NoDirectory(f)
            /\ \A f, g \in ToSet(ret[i].val) : NoDirectory(f) <=> NoDirectory(g)

\* where the first file of the group named key stands in files
FirstOf(files, key) ==
    CHOOSE n \in 1..Len(files) :
        /\ root_dir(files[n]) = key
        /\ \A m \in 1..(n - 1) : root_dir(files[m]) # key

\* the groups follow the first appearance of their keys in files, and each
\* group lists its files in the order of files
InInsertionOrder(files, result) ==
    LET first == [i \in 1..Len(result) |-> FirstOf(files, result[i].key)]
    IN  /\ \A i \in 1..Len(result) :
              result[i].val = SelectSeq(files, LAMBDA f : root_dir(f) = result[i].key)
        /\ \A i \in 1..(Len(result) - 1) : first[i] < first[i + 1]

\* where the group of this name stands in the list the loop iterates
GroupOf(name) == CHOOSE g \in 1..Len(groups) : groups[g].key = name

\* C33: the keys of group_files_by_directory are ordered by the first appearance
\* of a file of that key in the input list, files keep their input order inside
\* a group, and under PerDirectory the units are created in that key order: with
\* all directories selected the loop iterates exactly the groups returned.
C33_GroupsInInsertionOrder ==
    /\ called = "group" => InInsertionOrder(arg.files, ret)
    /\ staged # <<>> => InInsertionOrder(staged, grouped)
    /\ (strategy = "PerDirectory" /\ pc \in {"loop", "review", "gate", "done"}) =>
          /\ LET shown == grouped
             IN  /\ \E chosen \in SUBSET (1..Len(shown)) : groups = Pick(shown, chosen)
                 /\ Len(groups) = Len(shown) => groups = shown
          /\ \A u \in 1..Len(units) :
                /\ HasKey(groups, units[u].id)
                /\ units[u].files = groups[GroupOf(units[u].id)].val
                /\ GroupOf(units[u].id) <= gi
                /\ (pc = "review" /\ u = Len(units)) => GroupOf(units[u].id) = gi
          /\ \A u, v \in 1..Len(units) :
                u < v => GroupOf(units[u].id) < GroupOf(units[v].id)

\* C33 witness: three directory groups, all selected, three units in key order
C33_Witness ==
    /\ strategy = "PerDirectory"
    /\ pc = "done"
    /\ groups = grouped
    /\ Len(groups) = 3
    /\ [u \in 1..Len(units) |-> units[u].id] = Keys(grouped)

\* push_files_list as one run can get it: KnownError, or the files in one of
\* the orders list(set(all_files)) can have in that process
push_files_lists(paths, wd) ==
    LET found == get_files_from_paths(paths, wd)
    IN  IF found.raised # "none" THEN {found}
        ELSE {Returns(order) : order \in Orders(found.value)}

\* two runs of devcommit --stageAll --files paths from the same directory of the
\* same repository: staged["files"] is push_files_list in each (main.py 104-111)
InitTwice ==
    /\ arg \in {[paths |-> ps, cwd |-> c] : ps \in SeqsUpTo(FileArgs, MaxPaths), c \in Cwds}
    /\ ret = <<>>
    /\ called = "call_twice"
    /\ NoRun

RunTwice ==
    /\ called = "call_twice"
    /\ \E first, second \in push_files_lists(arg.paths, arg.cwd) :
          ret' = <<first, second>>
    /\ called' = "twice"
    /\ UNCHANGED <<arg, mainvars>>

SpecTwice == InitTwice /\ [][RunTwice]_vars

\* C34: the ChangeSet's file order is a function of the run's inputs: two runs
\* with the same flags and the same repository state get the same file list in
\* the same order, also when the ChangeSet comes from --files with --stageAll.
C34_ChangeSetOrderDeterministic ==
    called = "twice" => ret[1] = ret[2]

\* C35: in --files mode, when the user picks "Separate commit for each file" in
\* the strategy prompt, every unit and every commit invoked in the run is
\* scoped to exactly one file, whatever mix of files and directories was given.
C35_EachFileMeansOneFileCommits ==
    (is_files_mode /\ asked /\ strategy # "Global") =>
        /\ \A u \in 1..Len(units) : Len(units[u].files) = 1
        /\ \A k \in 1..Len(commits) : Len(commits[k].files) = 1

(***************************************************************************)
(* The run under --excludeFiles patterns: get_staged_diff hands them to    *)
(* git as ':(exclude)' pathspecs (git.py 74-75), get_diff_for_files        *)
(* matches them itself against the file names (git.py 146-151).            *)
(***************************************************************************)
\* an exclusion pattern that is the last character of a file name
PatternA == <<"a">>

\* main() from the start, with two staged files in two directories or in one
InitExclude ==
    /\ flags \in [push : {FALSE}, directory : BOOLEAN, stageAll : {FALSE}, files : {<<>>},
                  excludeFiles : {<<>>, <<FileM>>, <<PatternA>>}, rawArgv : {<<>>}]
    /\ cwd = RepoRoot
    /\ commit_mode = DefaultCommitMode
    /\ staged = <<>>
    /\ index \in {{FileM, FileSA}, {FileSA, FileSTC}}
    /\ worktree = {}
    /\ MainAt("start")
    /\ FnIdle

NextExclude ==
    \/ Collect
    \/ Resolve
    \/ EnterGlobal
    \/ GlobalAnalyze
    \/ EnterPerDirectory
    \/ LoopAnalyze
    \/ Return
    \/ ChooseCandidate
    \/ ChooseCustom
    \/ ChooseRegenerate
    \/ ChooseCancel
    \/ Gate

SpecExclude == InitExclude /\ [][NextExclude]_vars

\* C36: the diff text the candidates of a unit were generated from covers
\* exactly the unit's file list: every file the unit's commit is scoped to had
\* its staged changes shown to the provider, and nothing else was, for every
\* set of exclusion patterns (the path filter of get_diff_for_files keeps the
\* files the exclusion of get_staged_diff kept).
C36_DiffCoversUnitFiles ==
    /\ pc = "review" => ToSet(live.diff) = ToSet(units[Len(units)].files) \cap index
    /\ \A k \in 1..Len(commits) :
          ToSet(commits[k].files) = ToSet(units[commits[k].unit].files)

\* C37: when the run is started outside a version-controlled tree, the error
\* of assert_git_repo is handled by main's KnownError handler and reported, and
\* main returns normally: the handler raises nothing further, and no staging,
\* provider call or commit happens.
C37_NotARepositoryReported ==
    [][(cwd = Outside /\ pc = "start" /\ error' # "KeyboardInterrupt") =>
          /\ pc' = "aborted"
          /\ error' = "KnownError"
          /\ Logged("error_not_a_repository")'
          /\ index' = index
          /\ worktree' = worktree
          /\ units' = <<>>
          /\ calls' = <<>>
          /\ commits' = <<>>]_vars

(***************************************************************************)
(* The run without a configuration file: logger.py 11-16 binds config to    *)
(* None, and main's first lookup (main.py 52) calls it.                     *)
(***************************************************************************)
InitNoConfig ==
    /\ flags \in [push : BOOLEAN, directory : BOOLEAN, stageAll : BOOLEAN,
                  files : PathChoices, excludeFiles : ExcludeChoices, rawArgv : {<<>>}]
    /\ cwd \in {RepoRoot, Outside}
    /\ commit_mode = NoConfig
    /\ staged = <<>>
    /\ \E repo \in Repositories :
          /\ index = repo.index
          /\ worktree = repo.worktree
    /\ MainAt("start")
    /\ FnIdle

NextNoConfig ==
    \/ Collect
    \/ Interrupt

SpecNoConfig == InitNoConfig /\ [][NextNoConfig]_vars

\* C38: when no configuration file is present every configuration lookup
\* yields its default: the run goes on as with COMMIT_MODE "auto", to the
\* strategy resolution or to an error of collection itself, and does not end
\* with an error caused by the missing configuration.
C38_NoConfigMeansDefaults ==
    [][(/\ pc = "start"
        /\ commit_mode = NoConfig
        /\ cwd = RepoRoot
        /\ error' # "KeyboardInterrupt") =>
          \/ pc' = "resolve"
          \/ /\ pc' = "aborted"
             /\ error' \in {"KnownError", "CalledProcessError"}]_vars

\* the staged files, after exclusion, that the explicit paths resolve to, in the
\* order git lists them; without --stageAll what was staged when the run
\* started is what is staged now and what the run committed
StagedWithinPaths ==
    LET found == get_files_from_paths(flags.files, cwd)
        push_files == IF found.raised # "none" THEN {} ELSE found.value
    IN  SelectSeq(get_staged_diff(flags.excludeFiles, "ok", index \cup CommittedFiles),
                  LAMBDA f : f \in push_files)

\* C39: with --files and without --stageAll the ChangeSet is exactly the staged
\* files, after exclusion, that are also among the files the given paths
\* resolve to, in staged order; no unit contains a file that is unstaged or
\* outside the given paths; if there is no such file the run fails before any
\* provider call.
C39_ChangeSetIsStagedWithinPaths ==
    (flags.files # <<>> /\ ~flags.stageAll /\ cwd = RepoRoot /\ Uninterrupted) =>
        LET within == StagedWithinPaths
        IN  /\ staged # <<>> => staged = within
            /\ \A u \in 1..Len(units) : ToSet(units[u].files) \subseteq ToSet(within)
            /\ \A k \in 1..Len(commits) : ToSet(commits[k].files) \subseteq ToSet(within)
            /\ within = <<>> =>
                  /\ pc = "aborted"
                  /\ error = "KnownError"
                  /\ staged = <<>>
                  /\ units = <<>>
                  /\ generated = {}
                  /\ commits = <<>>

\* C39 witness: --files m s/a with s/a and s/t/c staged and m modified but not
\* staged: the ChangeSet is s/a alone, and it was committed
C39_Witness ==
    /\ flags.files = <<FileM, FileSA>>
    /\ ~flags.stageAll
    /\ worktree = {FileM}
    /\ staged = <<FileSA>>
    /\ index = {FileSTC}
    /\ Len(units) = 1
    /\ units[1].files = <<FileSA>>
    /\ units[1].state = "Committed"
    /\ pc = "done"

\* C40: the commit operation is never invoked with an empty message string:
\* picking a candidate that is the empty string is treated as a cancel, the
\* unit ends Skipped without a commit, and anyCommitted is not set by it.
C40_NoCommitWithEmptyMessage ==
    [][/\ commits' # commits => (last_message' # <<>> /\ last_message' # NoneVal)
       /\ (picked' = Pick1("candidate", <<>>) /\ picked' # picked) =>
             /\ commits' = commits
             /\ index' = index
             /\ units'[Len(units')].state = "Skipped"
             /\ commits_made' = commits_made
             /\ strategy = "Global" => ~commit_made']_vars

\* C40 witness: the first unit was committed; for the second the empty
\* candidate was picked and the unit was skipped
C40_Witness ==
    /\ picked = Pick1("candidate", <<>>)
    /\ Len(units) = 2
    /\ units[1].state = "Committed"
    /\ units[2].state = "Skipped"
    /\ units[2].how = "falsy"
    /\ Len(commits) = 1
    /\ commits_made

====
